---- MODULE Spec2Model ----
(***************************************************************************)
(* Model of the pacai student agents: the graph searches of search.py,     *)
(* the adversarial tree searches of multiagents.py and the value           *)
(* iteration of valueIterationAgent.py.                                    *)
(*                                                                         *)
(* A search problem is a finite directed graph with a cost on every edge,  *)
(* a set of goal states and a heuristic.  An action is named by the state  *)
(* it leads to, so a path of actions is the sequence of states it walks    *)
(* through after the start state.                                          *)
(***************************************************************************)
EXTENDS Integers, Sequences, FiniteSets, TLC

\* ------------------------------------------------------------------ bounds
NumStates == 3
MaxCost == 4
MaxEdges == 3
MaxH == 2
NumGameStates == 3
MaxAgents == 2
MaxMoves == 4
MaxEval == 2
MaxDepth == 2
NumMdpStates == 2
MaxActions == 2
MaxReward == 1
MaxIters == 2

VARIABLES
    alg,        \* which search function was called
    problem,    \* the search problem it was called with
    frontier,   \* node_stack / node_queue / node_pqueue, in insertion order
    visited,    \* visited_nodes
    expanded,   \* the states successorStates was called with, in call order
    outcome,    \* "running", "returned" or "raised"
    result,     \* the returned action sequence, once outcome = "returned"
    agent,      \* the class of the agent whose getAction was called
    game,       \* the game, the evaluation function and the tree depth
    scores,     \* the scores list of getAction: (value, action) pairs
    decision,   \* "running", "returned", "raised" or "overflow"
    nesting,    \* the deepest nesting of miniMax / expectiMax calls so far
    chosen,     \* the action getAction returned, once decision = "returned"
    mdp,        \* the Markov decision process, discountRate and iters
    values,     \* self.values
    newValues,  \* newValues of the sweep in progress
    sweeps,     \* the number of completed iterations of the sweep loop
    construction, \* "running" or "done": ValueIterationAgent.__init__
    asked,      \* the state getPolicy was called with; 0 before the call
    answer,     \* the action getPolicy returned
    previous    \* the iters and the table of an agent constructed earlier
                \* with the same mdp and discountRate; empty when none was

searchVars == <<alg, problem, frontier, visited, expanded, outcome, result>>
gameVars == <<agent, game, scores, decision, nesting, chosen>>
viVars == <<mdp, values, newValues, sweeps, construction, asked, answer, previous>>
vars == <<alg, problem, frontier, visited, expanded, outcome, result,
          agent, game, scores, decision, nesting, chosen,
          mdp, values, newValues, sweeps, construction, asked, answer, previous>>

\* ---------------------------------------------------------------- numbers
\* The values of a game tree are Python numbers: the evaluation function's
\* results and the quotients expectiMax forms of them.  They are modelled as
\* exact fractions <<numerator, denominator>> in lowest terms; the rounding
\* of floating point is not modelled.
Abs(n) == IF n < 0 THEN -n ELSE n

RECURSIVE Gcd(_, _)
Gcd(a, b) == IF b = 0 THEN a ELSE Gcd(b, a % b)

Rat(n, d) == LET g == Gcd(Abs(n), d) IN <<n \div g, d \div g>>

RatOf(n) == <<n, 1>>

RatAdd(a, b) == Rat(a[1] * b[2] + b[1] * a[2], a[2] * b[2])

RatMul(a, b) == Rat(a[1] * b[1], a[2] * b[2])

RatLess(a, b) == a[1] * b[2] < b[1] * a[2]

RECURSIVE RatSum(_)
RatSum(xs) == IF xs = <<>> THEN RatOf(0) ELSE RatAdd(Head(xs), RatSum(Tail(xs)))

RECURSIVE RatMax(_)
RatMax(xs) ==
    IF Len(xs) = 1 THEN xs[1]
    ELSE LET m == RatMax(Tail(xs)) IN IF RatLess(xs[1], m) THEN m ELSE xs[1]

RECURSIVE RatMin(_)
RatMin(xs) ==
    IF Len(xs) = 1 THEN xs[1]
    ELSE LET m == RatMin(Tail(xs)) IN IF RatLess(m, xs[1]) THEN m ELSE xs[1]

RECURSIVE IntMax(_)
IntMax(xs) ==
    IF Len(xs) = 1 THEN xs[1]
    ELSE LET m == IntMax(Tail(xs)) IN IF xs[1] < m THEN m ELSE xs[1]

RECURSIVE IntMin(_)
IntMin(xs) ==
    IF Len(xs) = 1 THEN xs[1]
    ELSE LET m == IntMin(Tail(xs)) IN IF m < xs[1] THEN m ELSE xs[1]

\* ------------------------------------------------------- the search problem
States == 1 .. NumStates
StepCosts == 0 .. MaxCost
EdgePairs == {e \in States \X States : e[1] # e[2]}
Topologies == {E \in SUBSET EdgePairs : Cardinality(E) <= MaxEdges}

startingState == 1

isGoal(s) == s \in problem.goals

RECURSIVE SortedSeq(_)
SortedSeq(S) ==
    IF S = {} THEN <<>>
    ELSE LET m == CHOOSE x \in S : \A y \in S : x <= y
         IN <<m>> \o SortedSeq(S \ {m})

\* problem.successorStates(s): the (successor, action, cost) triples of s,
\* enumerated in a fixed order.
successorStates(s) ==
    LET targets == SortedSeq({t \in States : <<s, t>> \in DOMAIN problem.cost})
    IN [k \in 1 .. Len(targets) |->
            [state |-> targets[k], action |-> targets[k],
             cost |-> problem.cost[<<s, targets[k]>>]]]

\* The state a path of actions ends in, walked from the start state.
EndState(path) == IF path = <<>> THEN startingState ELSE path[Len(path)]

\* problem.actionsCost(actions): the total cost of a sequence of actions
\* taken from the start state.
RECURSIVE actionsCost(_)
actionsCost(path) ==
    IF path = <<>> THEN 0
    ELSE LET front == SubSeq(path, 1, Len(path) - 1)
         IN actionsCost(front) + problem.cost[<<EndState(front), path[Len(path)]>>]

heuristic(s) == problem.h[s]

\* ------------------------------------------------------------- the frontier
Node(s, path, priority) == [state |-> s, path |-> path, priority |-> priority]

\* A queue that hands out its newest entry.
QueuePopNewest(q) == Len(q)

\* Queue.pop: first in, first out.
QueuePop(q) == 1

\* Stack.pop: last in, first out.
StackPop(q) == Len(q)

\* PriorityQueue.pop: an entry of the least priority.  Which of several
\* entries of the same priority comes out is left open.
PriorityQueuePops(q) ==
    {i \in 1 .. Len(q) : \A j \in 1 .. Len(q) : q[i].priority <= q[j].priority}

Remove(q, i) == SubSeq(q, 1, i - 1) \o SubSeq(q, i + 1, Len(q))

\* The priority uniformCostSearch pushes a successor with (line 131).
UcsPriority(path, succ) == actionsCost(Append(path, succ.action)) + succ.cost

\* A priority that leaves out the cost of the path so far.
AStarPriorityGreedy(path, succ) == heuristic(succ.state)

\* The priority aStarSearch pushes a successor with (line 166).
AStarPriority(path, succ) == actionsCost(Append(path, succ.action)) + heuristic(succ.state)

\* The priority a successor is pushed with: breadthFirstSearch pushes on a
\* plain queue, without one.
Priority(path, succ) ==
    IF alg = "ucs" THEN UcsPriority(path, succ)
    ELSE IF alg = "astar" THEN AStarPriority(path, succ)
    ELSE 0

RECURSIVE Unvisited(_, _)
\* The successors the for loop does not skip: those not in visited_nodes.
Unvisited(succs, vis) ==
    IF succs = <<>> THEN <<>>
    ELSE IF Head(succs).state \in vis THEN Unvisited(Tail(succs), vis)
    ELSE <<Head(succs)>> \o Unvisited(Tail(succs), vis)

\* A push of every unvisited successor with the path of its parent.
PushSuccessorsSamePath(q, succs, path, vis) ==
    LET new == Unvisited(succs, vis)
    IN q \o [k \in 1 .. Len(new) |-> Node(new[k].state, path, Priority(path, new[k]))]

\* The for loop over neighbor_nodes: every successor that is not in
\* visited_nodes is pushed with the path extended by its action.
PushSuccessors(q, succs, path, vis) ==
    LET new == Unvisited(succs, vis)
    IN q \o [k \in 1 .. Len(new) |->
                Node(new[k].state, Append(path, new[k].action), Priority(path, new[k]))]

Range(f) == {f[k] : k \in DOMAIN f}

\* A membership test that finds no state in visited_nodes.
NeverVisited(state) == FALSE

\* The test of the popped node: current_node in visited_nodes.
AlreadyVisited(state) == state \in Range(visited)

\* One iteration of the while loop of breadthFirstSearch, uniformCostSearch
\* and aStarSearch, with the node at index i popped.
Iterate(i) ==
    LET node == frontier[i]
        rest == Remove(frontier, i)
    IN IF isGoal(node.state)
       THEN /\ outcome' = "returned"
            /\ result' = node.path
            /\ frontier' = rest
            /\ UNCHANGED <<visited, expanded>>
       ELSE IF AlreadyVisited(node.state)
       THEN /\ frontier' = rest
            /\ UNCHANGED <<visited, expanded, outcome, result>>
       ELSE /\ visited' = Append(visited, node.state)
            /\ expanded' = Append(expanded, node.state)
            /\ frontier' = PushSuccessors(rest, successorStates(node.state),
                                          node.path, Range(visited'))
            /\ UNCHANGED <<outcome, result>>

\* ------------------------------------------------------------------ actions
BfsIter ==
    /\ alg = "bfs" /\ outcome = "running" /\ frontier # <<>>
    /\ Iterate(QueuePop(frontier))
    /\ UNCHANGED <<alg, problem, gameVars, viVars>>

UcsIter ==
    /\ alg = "ucs" /\ outcome = "running" /\ frontier # <<>>
    /\ \E i \in PriorityQueuePops(frontier) : Iterate(i)
    /\ UNCHANGED <<alg, problem, gameVars, viVars>>

AStarIter ==
    /\ alg = "astar" /\ outcome = "running" /\ frontier # <<>>
    /\ \E i \in PriorityQueuePops(frontier) : Iterate(i)
    /\ UNCHANGED <<alg, problem, gameVars, viVars>>

\* The frontier of breadthFirstSearch, uniformCostSearch or aStarSearch is
\* empty: the loop ends and the function raises NotImplementedError.
Exhausted ==
    /\ alg \in {"bfs", "ucs", "astar"} /\ outcome = "running" /\ frontier = <<>>
    /\ outcome' = "raised"
    /\ UNCHANGED <<alg, problem, frontier, visited, expanded, result, gameVars, viVars>>

\* One iteration of the while loop of depthFirstSearch.  visited_nodes is a
\* tuple: the membership test on it is false, and visited_nodes.add raises
\* AttributeError.
DfsIter ==
    /\ alg = "dfs" /\ outcome = "running" /\ frontier # <<>>
    /\ LET i == StackPop(frontier)
           node == frontier[i]
       IN /\ frontier' = Remove(frontier, i)
          /\ IF isGoal(node.state)
             THEN outcome' = "returned" /\ result' = node.path
             ELSE outcome' = "raised" /\ UNCHANGED result
    /\ UNCHANGED <<alg, problem, visited, expanded, gameVars, viVars>>

\* ------------------------------------------------------------------ the game
\* A game state is one of GameStates; the root of getAction is state 1.  An
\* action is named by the state it leads to.  game.moves holds the triples
\* <<agent index, state, action>> of the legal actions.
GameStates == 1 .. NumGameStates
rootState == 1

getNumAgents == game.n

getTreeDepth == game.depth

\* gameState.getLegalActions(index), enumerated in a fixed order.
getLegalActions(gameState, index) ==
    SortedSeq({a \in GameStates : <<index, gameState, a>> \in game.moves})

\* gameState.generateSuccessor(index, action)
generateSuccessor(gameState, index, action) == action

\* self._evaluationFunction(gameState)
getEvaluationFunction(gameState) == game.eval[gameState]

RECURSIVE miniMax(_, _, _)
\* MinimaxAgent.miniMax.  Line 144 sets index to 0 whatever was passed and
\* line 145 counts every call, of any agent, as one level of depth.
miniMax(gameState, index0, curDepth0) ==
    LET index == 0
        curDepth == curDepth0 + 1
    IN IF curDepth = getTreeDepth THEN getEvaluationFunction(gameState)
       ELSE LET legalActions == getLegalActions(gameState, index)
            IN IF Len(legalActions) = 0 THEN getEvaluationFunction(gameState)
               ELSE LET moveScores ==
                            [k \in 1 .. Len(legalActions) |->
                                miniMax(generateSuccessor(gameState, index, legalActions[k]),
                                        index + 1, curDepth)]
                    IN IF index = 0 THEN IntMax(moveScores) ELSE IntMin(moveScores)

\* The nesting of calls beyond which a recursion is taken never to return.
\* A chain of more calls than there are (state, agent) pairs repeats a call
\* that no depth test has ended.  Python ends such a recursion with
\* RecursionError.
RecursionLimit == NumGameStates * MaxAgents + MaxDepth * MaxAgents

RECURSIVE miniMaxNesting(_, _, _, _)
\* The deepest nesting the call miniMax(gameState, index0, curDepth0) reaches
\* when it is itself the level-th nested call; followed no further than one
\* call past RecursionLimit.
miniMaxNesting(gameState, index0, curDepth0, level) ==
    LET index == 0
        curDepth == curDepth0 + 1
    IN IF level > RecursionLimit THEN level
       ELSE IF curDepth = getTreeDepth THEN level
       ELSE LET legalActions == getLegalActions(gameState, index)
            IN IF Len(legalActions) = 0 THEN level
               ELSE IntMax([k \in 1 .. Len(legalActions) |->
                               miniMaxNesting(generateSuccessor(gameState, index, legalActions[k]),
                                              index + 1, curDepth, level + 1)])

\* The least of the scores in the place of their mean.
MeanAsMin(xs) == RatMin(xs)

\* sum(scores) / len(scores)
Mean(xs) == LET t == RatSum(xs) IN Rat(t[1], t[2] * Len(xs))

RECURSIVE expectiMax(_, _, _)
\* ExpectimaxAgent.expectiMax
expectiMax(gameState, index0, depth0) ==
    LET wrap == index0 = getNumAgents
        index == IF wrap THEN 0 ELSE index0
        depth == IF wrap THEN depth0 + 1 ELSE depth0
    IN IF wrap /\ depth = getTreeDepth THEN RatOf(getEvaluationFunction(gameState))
       ELSE LET legalActions == getLegalActions(gameState, index)
            IN IF Len(legalActions) = 0 THEN RatOf(getEvaluationFunction(gameState))
               ELSE LET moveScores ==
                            [k \in 1 .. Len(legalActions) |->
                                expectiMax(generateSuccessor(gameState, index, legalActions[k]),
                                           index + 1, depth)]
                    IN IF index = 0 THEN RatMax(moveScores) ELSE Mean(moveScores)

RECURSIVE expectiMaxNesting(_, _, _, _)
\* The deepest nesting the call expectiMax(gameState, index0, depth0) reaches
\* when it is itself the level-th nested call; followed no further than one
\* call past RecursionLimit.
expectiMaxNesting(gameState, index0, depth0, level) ==
    LET wrap == index0 = getNumAgents
        index == IF wrap THEN 0 ELSE index0
        depth == IF wrap THEN depth0 + 1 ELSE depth0
    IN IF level > RecursionLimit THEN level
       ELSE IF wrap /\ depth = getTreeDepth THEN level
       ELSE LET legalActions == getLegalActions(gameState, index)
            IN IF Len(legalActions) = 0 THEN level
               ELSE IntMax([k \in 1 .. Len(legalActions) |->
                               expectiMaxNesting(generateSuccessor(gameState, index, legalActions[k]),
                                                 index + 1, depth, level + 1)])

\* max(scores)[0]: the greatest value of the (value, action) pairs.
BestScore(pairs) == RatMax([k \in 1 .. Len(pairs) |-> pairs[k][1]])

\* The last action, in the order of the scores list, whose value is the best
\* score.
BestActionLast(pairs) ==
    LET bestScore == BestScore(pairs)
        last == CHOOSE k \in 1 .. Len(pairs) :
                    /\ pairs[k][1] = bestScore
                    /\ \A j \in k + 1 .. Len(pairs) : pairs[j][1] # bestScore
    IN pairs[last][2]

\* bestIndices[0]: the first action, in the order of the scores list, whose
\* value is the best score.
BestAction(pairs) ==
    LET bestScore == BestScore(pairs)
        first == CHOOSE k \in 1 .. Len(pairs) :
                    /\ pairs[k][1] = bestScore
                    /\ \A j \in 1 .. k - 1 : pairs[j][1] # bestScore
    IN pairs[first][2]

\* The last two statements and the return of getAction.  max of an empty
\* scores list raises ValueError.
ReturnBest ==
    /\ decision = "running"
    /\ Len(scores) = Len(getLegalActions(rootState, 0))
    /\ IF scores = <<>>
       THEN decision' = "raised" /\ UNCHANGED chosen
       ELSE decision' = "returned" /\ chosen' = BestAction(scores)
    /\ UNCHANGED <<agent, game, scores, nesting, searchVars, viVars>>

\* The (result, legalAction) pair MinimaxAgent.getAction appends for a legal
\* action of the root (lines 174-175).
MinimaxScore(legalAction) ==
    <<RatOf(miniMax(generateSuccessor(rootState, 0, legalAction), 1, 0)), legalAction>>

\* The action MinimaxAgent.getAction returns for a root with a legal action.
MinimaxGetAction ==
    LET legalActions == getLegalActions(rootState, 0)
    IN BestAction([k \in 1 .. Len(legalActions) |-> MinimaxScore(legalActions[k])])

\* One iteration of the for loop of MinimaxAgent.getAction (lines 173-175),
\* unless the recursion of its miniMax call does not return.  The list the
\* comprehension of lines 169-170 builds of the same calls is thrown away.
MinimaxScoreAction ==
    /\ agent = "MinimaxAgent" /\ decision = "running"
    /\ Len(scores) < Len(getLegalActions(rootState, 0))
    /\ LET legalAction == getLegalActions(rootState, 0)[Len(scores) + 1]
           deepest == miniMaxNesting(generateSuccessor(rootState, 0, legalAction), 1, 0, 1)
       IN /\ nesting' = IF deepest > nesting THEN deepest ELSE nesting
          /\ IF deepest > RecursionLimit
             THEN decision' = "overflow" /\ UNCHANGED scores
             ELSE scores' = Append(scores, MinimaxScore(legalAction)) /\ UNCHANGED decision
    /\ UNCHANGED <<agent, game, chosen, searchVars, viVars>>

MinimaxReturn == agent = "MinimaxAgent" /\ ReturnBest

\* The (result, move) pair ExpectimaxAgent.getAction appends for a legal move
\* of the root (lines 241-242).
ExpectimaxScore(move) ==
    <<expectiMax(generateSuccessor(rootState, 0, move), 1, 0), move>>

\* One iteration of the for loop of ExpectimaxAgent.getAction (lines 240-242),
\* unless the recursion of its expectiMax call does not return.
ExpectimaxScoreMove ==
    /\ agent = "ExpectimaxAgent" /\ decision = "running"
    /\ Len(scores) < Len(getLegalActions(rootState, 0))
    /\ LET move == getLegalActions(rootState, 0)[Len(scores) + 1]
           deepest == expectiMaxNesting(generateSuccessor(rootState, 0, move), 1, 0, 1)
       IN /\ nesting' = IF deepest > nesting THEN deepest ELSE nesting
          /\ IF deepest > RecursionLimit
             THEN decision' = "overflow" /\ UNCHANGED scores
             ELSE scores' = Append(scores, ExpectimaxScore(move)) /\ UNCHANGED decision
    /\ UNCHANGED <<agent, game, chosen, searchVars, viVars>>

ExpectimaxReturn == agent = "ExpectimaxAgent" /\ ReturnBest

\* AlphaBetaAgent defines __init__ alone.  It has no getAction of its own and
\* no search: a call of getAction yields no action.
AlphaBetaGetAction ==
    /\ agent = "AlphaBetaAgent" /\ decision = "running"
    /\ decision' = "raised"
    /\ UNCHANGED <<agent, game, scores, nesting, chosen, searchVars, viVars>>

\* ------------------------------------------------------- value iteration
\* mdp.getStates(): the states, in a fixed order.
getStates == [k \in 1 .. NumMdpStates |-> k]

\* mdp.getPossibleActions(state): the actions 1 .. k of the state, in order;
\* none for a terminal state.
getPossibleActions(state) == [k \in 1 .. Len(mdp.trans[state]) |-> k]

\* mdp.getTransitionStatesAndProbs(state, action), each pair with the reward
\* mdp.getReward(state, action, nextState) of its transition beside it.
getTransitionStatesAndProbs(state, action) == mdp.trans[state][action]

\* A read of the table that sees the values of the sweep in progress.
getValueInPlace(state) ==
    IF state \in DOMAIN newValues THEN newValues[state]
    ELSE IF state \in DOMAIN values THEN values[state] ELSE RatOf(0)

\* ValueIterationAgent.getValue: self.values.get(state, 0.0)
getValue(state) == IF state \in DOMAIN values THEN values[state] ELSE RatOf(0)

\* A Q-value that takes the discounted value of the next state off the reward.
getQValueLessFuture(state, action) ==
    LET outcomes == getTransitionStatesAndProbs(state, action)
    IN RatSum([k \in 1 .. Len(outcomes) |->
                  RatMul(outcomes[k].prob,
                         RatAdd(RatOf(outcomes[k].reward),
                                RatMul(RatMul(RatOf(-1), mdp.discountRate),
                                       getValue(outcomes[k].nextState))))])

\* ValueIterationAgent.getQValue
getQValue(state, action) ==
    LET outcomes == getTransitionStatesAndProbs(state, action)
    IN RatSum([k \in 1 .. Len(outcomes) |->
                  RatMul(outcomes[k].prob,
                         RatAdd(RatOf(outcomes[k].reward),
                                RatMul(mdp.discountRate, getValue(outcomes[k].nextState))))])

\* The body of the loop over the states (lines 50-59): the value newValues
\* gets for a state.  maxQValue starts at minus infinity, below the Q-value
\* of the first action.
SweepValue(state) ==
    LET possibleActions == getPossibleActions(state)
    IN IF possibleActions = <<>> THEN getValue(state)
       ELSE RatMax([k \in 1 .. Len(possibleActions) |-> getQValue(state, possibleActions[k])])

\* One iteration of the loop over the states within a sweep.
SweepState ==
    /\ construction = "running" /\ sweeps < mdp.iters
    /\ Len(newValues) < Len(getStates)
    /\ LET state == getStates[Len(newValues) + 1]
       IN newValues' = Append(newValues, SweepValue(state))
    /\ UNCHANGED <<mdp, values, sweeps, construction, asked, answer, previous>>
    /\ UNCHANGED <<searchVars, gameVars>>

\* The end of a sweep (line 60): self.values = newValues.  The next sweep
\* starts with an empty newValues (line 48).
EndSweep ==
    /\ construction = "running" /\ sweeps < mdp.iters
    /\ Len(newValues) = Len(getStates)
    /\ values' = newValues
    /\ newValues' = <<>>
    /\ sweeps' = sweeps + 1
    /\ UNCHANGED <<mdp, construction, asked, answer, previous, searchVars, gameVars>>

\* range(self.iters) is exhausted: __init__ returns.
Constructed ==
    /\ construction = "running" /\ sweeps >= mdp.iters
    /\ construction' = "done"
    /\ UNCHANGED <<mdp, values, newValues, sweeps, asked, answer, previous>>
    /\ UNCHANGED <<searchVars, gameVars>>

\* Python's None, the action of a state that has none.  The actions of the
\* model are the numbers from 1.
None == 0

\* The test of line 101 with a tie taken for an improvement.
ImprovesOrTies(qValue, bestQValue) == ~RatLess(qValue, bestQValue)

\* The test of line 101: qValue > bestQValue.
Improves(qValue, bestQValue) == RatLess(bestQValue, qValue)

RECURSIVE PolicyLoop(_, _, _)
\* The for loop of getPolicy (lines 100-102) over the actions left, with the
\* best action so far.
PolicyLoop(state, actions, bestAction) ==
    IF actions = <<>> THEN bestAction
    ELSE PolicyLoop(state, Tail(actions),
                    IF Improves(getQValue(state, Head(actions)), getQValue(state, bestAction))
                    THEN Head(actions) ELSE bestAction)

\* ValueIterationAgent.getPolicy
getPolicy(state) ==
    LET actions == getPossibleActions(state)
    IN IF actions # <<>> THEN PolicyLoop(state, actions, actions[1]) ELSE None

\* A call of getPolicy on the constructed agent.
GetPolicy ==
    /\ construction = "done" /\ asked = 0
    /\ \E state \in Range(getStates) :
           /\ asked' = state
           /\ answer' = getPolicy(state)
    /\ UNCHANGED <<mdp, values, newValues, sweeps, construction, previous>>
    /\ UNCHANGED <<searchVars, gameVars>>

\* __init__ of one more agent with the same mdp and discountRate, after the
\* construction of the first, with iters = k: as many sweeps as the first
\* agent made or one more.  Lines 34-45.
ConstructAgain(k) ==
    /\ construction = "done" /\ previous = <<>>
    /\ k \in {mdp.iters, mdp.iters + 1}
    /\ previous' = <<[iters |-> mdp.iters, values |-> values]>>
    /\ mdp' = [mdp EXCEPT !.iters = k]
    /\ values' = [s \in 1 .. NumMdpStates |-> RatOf(0)]
    /\ newValues' = <<>>
    /\ sweeps' = 0
    /\ construction' = "running"
    /\ asked' = 0
    /\ answer' = None
    /\ UNCHANGED <<searchVars, gameVars>>

\* ------------------------------------------------------------ specification
\* breadthFirstSearch and depthFirstSearch never read a cost: their problems
\* have the uniform step cost 1.  Only aStarSearch reads the heuristic.
ProblemsOf(a) ==
    LET costs == IF a \in {"bfs", "dfs"} THEN {1} ELSE StepCosts
        hs == IF a = "astar" THEN 0 .. MaxH ELSE {0}
    IN UNION {[cost : [E -> costs], goals : SUBSET States, h : [States -> hs]]
              : E \in Topologies}

SearchStart(a) ==
    /\ alg = a
    /\ problem \in ProblemsOf(a)
    /\ frontier = <<Node(startingState, <<>>, 0)>>
    /\ visited = <<>>
    /\ expanded = <<>>
    /\ outcome = "running"
    /\ result = <<>>

\* No search has been called.
SearchIdle ==
    /\ alg = "none" /\ problem = <<>> /\ frontier = <<>> /\ visited = <<>>
    /\ expanded = <<>> /\ outcome = "idle" /\ result = <<>>

\* The games of n agents: at most MaxMoves legal actions in all, an
\* evaluation of every state, and a tree depth of at least 1.
GamesOf(n) ==
    [n : {n},
     depth : 1 .. MaxDepth,
     moves : {M \in SUBSET ((0 .. n - 1) \X GameStates \X GameStates) :
                 Cardinality(M) <= MaxMoves},
     eval : [GameStates -> 0 .. MaxEval]]

GameStart(a) ==
    /\ agent = a
    /\ \E n \in 1 .. MaxAgents : game \in GamesOf(n)
    /\ scores = <<>>
    /\ decision = "running"
    /\ nesting = 0
    /\ chosen = 0

\* The games of n agents with any tree depth from 0.
GamesOfAnyDepth(n) ==
    [n : {n},
     depth : 0 .. MaxDepth,
     moves : {M \in SUBSET ((0 .. n - 1) \X GameStates \X GameStates) :
                 Cardinality(M) <= MaxMoves},
     eval : [GameStates -> 0 .. MaxEval]]

GameStartAnyDepth(a) ==
    /\ agent = a
    /\ \E n \in 1 .. MaxAgents : game \in GamesOfAnyDepth(n)
    /\ scores = <<>>
    /\ decision = "running"
    /\ nesting = 0
    /\ chosen = 0

\* No agent has been asked for an action.
GameIdle ==
    /\ agent = "none" /\ game = <<>> /\ scores = <<>> /\ decision = "idle"
    /\ nesting = 0 /\ chosen = 0

Rewards == 0 .. MaxReward
MdpStates == 1 .. NumMdpStates
Discounts == {<<1, 2>>, <<9, 10>>}

\* What an action may do: lead to one state for sure, or to either of two
\* states with probability 1/2 each; every transition has its reward.
Outcomes ==
    {<<[nextState |-> t, prob |-> <<1, 1>>, reward |-> r]>> : t \in MdpStates, r \in Rewards}
    \cup
    {<<[nextState |-> t[1], prob |-> <<1, 2>>, reward |-> r[1]],
       [nextState |-> t[2], prob |-> <<1, 2>>, reward |-> r[2]]>>
     : t \in {u \in MdpStates \X MdpStates : u[1] < u[2]}, r \in Rewards \X Rewards}

Mdps ==
    [trans : [MdpStates -> UNION {[1 .. k -> Outcomes] : k \in 0 .. MaxActions}],
     discountRate : Discounts,
     iters : 0 .. MaxIters]

\* __init__ has set every state's value to 0 (lines 43-45) and is about to
\* enter the sweep loop.
ViStart ==
    /\ mdp \in Mdps
    /\ values = [k \in 1 .. NumMdpStates |-> RatOf(0)]
    /\ newValues = <<>>
    /\ sweeps = 0
    /\ construction = "running"
    /\ asked = 0
    /\ answer = None
    /\ previous = <<>>

\* No ValueIterationAgent is under construction.
ViIdle ==
    /\ mdp = <<>> /\ values = <<>> /\ newValues = <<>> /\ sweeps = 0
    /\ construction = "idle" /\ asked = 0 /\ answer = None /\ previous = <<>>

Init == (\E a \in {"bfs", "ucs", "astar", "dfs"} : SearchStart(a)) /\ GameIdle /\ ViIdle

Next == BfsIter \/ UcsIter \/ AStarIter \/ Exhausted \/ DfsIter

Spec == Init /\ [][Next]_vars

InitBFS == SearchStart("bfs") /\ GameIdle /\ ViIdle
NextBFS == BfsIter \/ Exhausted
SpecBFS == InitBFS /\ [][NextBFS]_vars

InitUCS == SearchStart("ucs") /\ GameIdle /\ ViIdle
NextUCS == UcsIter \/ Exhausted
SpecUCS == InitUCS /\ [][NextUCS]_vars

InitAStar == SearchStart("astar") /\ GameIdle /\ ViIdle
NextAStar == AStarIter \/ Exhausted
SpecAStar == InitAStar /\ [][NextAStar]_vars

InitDFS == SearchStart("dfs") /\ GameIdle /\ ViIdle
NextDFS == DfsIter
SpecDFS == InitDFS /\ [][NextDFS]_vars

InitMinimax == GameStart("MinimaxAgent") /\ SearchIdle /\ ViIdle
NextMinimax == MinimaxScoreAction \/ MinimaxReturn
SpecMinimax == InitMinimax /\ [][NextMinimax]_vars

InitExpectimax == GameStart("ExpectimaxAgent") /\ SearchIdle /\ ViIdle
NextExpectimax == ExpectimaxScoreMove \/ ExpectimaxReturn
SpecExpectimax == InitExpectimax /\ [][NextExpectimax]_vars

InitAlphaBeta == GameStart("AlphaBetaAgent") /\ SearchIdle /\ ViIdle
NextAlphaBeta == AlphaBetaGetAction
SpecAlphaBeta == InitAlphaBeta /\ [][NextAlphaBeta]_vars

InitTree ==
    /\ GameStartAnyDepth("MinimaxAgent") \/ GameStartAnyDepth("ExpectimaxAgent")
    /\ SearchIdle /\ ViIdle
NextTree == MinimaxScoreAction \/ MinimaxReturn \/ ExpectimaxScoreMove \/ ExpectimaxReturn
SpecTree == InitTree /\ [][NextTree]_vars

InitVI == ViStart /\ SearchIdle /\ GameIdle
NextVI ==
    \/ SweepState \/ EndSweep \/ Constructed \/ GetPolicy
    \/ \E k \in 0 .. MaxIters : ConstructAgain(k)
SpecVI == InitVI /\ [][NextVI]_vars

\* ------------------------------------------------- properties of the searches
Infinity == NumStates * MaxCost + 1

Min2(a, b) == IF a <= b THEN a ELSE b

RECURSIVE MinOf(_)
MinOf(S) == LET x == CHOOSE y \in S : TRUE
            IN IF S = {x} THEN x ELSE Min2(x, MinOf(S \ {x}))

RECURSIVE CostToGoal(_, _)
\* The least total cost of a path of at most k actions from s to a goal state;
\* Infinity when there is none.
CostToGoal(s, k) ==
    IF isGoal(s) THEN 0
    ELSE IF k = 0 THEN Infinity
    ELSE MinOf({Infinity} \cup
               {Min2(Infinity, problem.cost[e] + CostToGoal(e[2], k - 1))
                : e \in {d \in DOMAIN problem.cost : d[1] = s}})

\* The least total cost of any path from s to a goal state.
MinCost(s) == CostToGoal(s, NumStates)

RECURSIVE ActionsToGoal(_, _)
\* The least number of actions of a path of at most k actions from s to a
\* goal state; Infinity when there is none.
ActionsToGoal(s, k) ==
    IF isGoal(s) THEN 0
    ELSE IF k = 0 THEN Infinity
    ELSE MinOf({Infinity} \cup
               {Min2(Infinity, 1 + ActionsToGoal(e[2], k - 1))
                : e \in {d \in DOMAIN problem.cost : d[1] = s}})

MinActions(s) == ActionsToGoal(s, NumStates)

GoalReachable == MinActions(startingState) < Infinity

\* path is a contiguous sequence of successor transitions from the start state.
IsPath(path) ==
    \A k \in 1 .. Len(path) :
        <<EndState(SubSeq(path, 1, k - 1)), path[k]>> \in DOMAIN problem.cost

IsPathToGoal(path) == IsPath(path) /\ isGoal(EndState(path))

Admissible == \A s \in States : MinCost(s) < Infinity => heuristic(s) <= MinCost(s)

Consistent ==
    /\ \A s \in problem.goals : heuristic(s) = 0
    /\ \A e \in DOMAIN problem.cost : heuristic(e[1]) <= problem.cost[e] + heuristic(e[2])

\* C1: whenever a goal is reachable, uniformCostSearch returns a path from the
\* start state to a goal state whose total cost is the least of any such path.
C1_UcsReturnsMinCost ==
    (alg = "ucs" /\ outcome # "running" /\ GoalReachable)
        => /\ outcome = "returned"
           /\ IsPathToGoal(result)
           /\ actionsCost(result) = MinCost(startingState)

\* C2: with an admissible and consistent heuristic and a reachable goal,
\* aStarSearch returns a path from the start state to a goal state whose total
\* cost is the least of any such path.
C2_AStarReturnsMinCost ==
    (alg = "astar" /\ outcome # "running" /\ GoalReachable /\ Admissible /\ Consistent)
        => /\ outcome = "returned"
           /\ IsPathToGoal(result)
           /\ actionsCost(result) = MinCost(startingState)

\* aStarSearch has returned a two-action path, under a heuristic that is not
\* zero everywhere, although a single action of a greater cost leads from the
\* start to a goal.
C2_Witness ==
    /\ alg = "astar" /\ outcome = "returned" /\ Admissible /\ Consistent
    /\ Len(result) = 2
    /\ \E s \in States : heuristic(s) > 0
    /\ \E e \in DOMAIN problem.cost :
           e[1] = startingState /\ isGoal(e[2]) /\ problem.cost[e] > actionsCost(result)

\* C3: under uniform step cost and with a reachable goal, breadthFirstSearch
\* returns a path from the start state to a goal state with the least number
\* of actions of any such path.
C3_BfsReturnsFewestActions ==
    (alg = "bfs" /\ outcome # "running" /\ GoalReachable)
        => /\ outcome = "returned"
           /\ IsPathToGoal(result)
           /\ Len(result) = MinActions(startingState)

\* breadthFirstSearch has returned a one-action path although a two-action
\* path leads to the same goal state, with another node still in the queue.
C3_Witness ==
    /\ alg = "bfs" /\ outcome = "returned" /\ Len(result) = 1
    /\ \E t \in States : IsPathToGoal(<<t, result[1]>>)
    /\ frontier # <<>>

\* C4: whenever a goal is reachable, depthFirstSearch returns a path that
\* leads from the start state to a goal state.
C4_DfsReturnsPathToGoal ==
    (alg = "dfs" /\ outcome # "running" /\ GoalReachable)
        => (outcome = "returned" /\ IsPathToGoal(result))

\* C5: when no goal is reachable, a search that has finished has returned to
\* its caller: it has not raised.
C5_NoSolutionIsReturned ==
    (outcome # "running" /\ ~GoalReachable) => outcome = "returned"

GraphSearches == {"bfs", "ucs", "astar"}

\* C13: a sequence breadthFirstSearch, uniformCostSearch or aStarSearch
\* returns is a contiguous path of successor transitions from the start state
\* to a goal state, and is empty exactly when the start state is a goal; and
\* every node of the frontier carries a path that leads from the start state
\* to the node's state.
C13_PathsAreContiguous ==
    alg \in GraphSearches =>
        /\ outcome = "returned" =>
              /\ IsPathToGoal(result)
              /\ result = <<>> <=> isGoal(startingState)
        /\ \A k \in 1 .. Len(frontier) :
              IsPath(frontier[k].path) /\ EndState(frontier[k].path) = frontier[k].state

\* A search has returned a path of two actions while the frontier holds
\* a node with another path to the same state.
C13_Witness ==
    /\ alg \in GraphSearches /\ outcome = "returned" /\ Len(result) = 2
    /\ \E k \in 1 .. Len(frontier) :
           frontier[k].state = EndState(result) /\ frontier[k].path # result

NoDuplicates(seq) == \A j, k \in 1 .. Len(seq) : seq[j] = seq[k] => j = k

\* C14: in every iteration of the loop of breadthFirstSearch,
\* uniformCostSearch or aStarSearch exactly one node leaves the frontier, the
\* others staying in place before the nodes pushed; no state is given to
\* successorStates twice; and every state in the visited collection stays in it.
C14_ExpandOncePopOne ==
    [][(alg \in GraphSearches /\ outcome = "running" /\ frontier # <<>>) =>
          /\ \E i \in 1 .. Len(frontier) :
                /\ Len(frontier') >= Len(frontier) - 1
                /\ SubSeq(frontier', 1, Len(frontier) - 1) = Remove(frontier, i)
          /\ NoDuplicates(expanded')
          /\ Len(expanded') <= Len(expanded) + 1
          /\ Range(visited) \subseteq Range(visited')]_vars

\* A state that has been expanded waits in the frontier once more.
C14_Witness ==
    /\ alg \in GraphSearches /\ outcome = "running"
    /\ \E k \in 1 .. Len(frontier) : frontier[k].state \in Range(expanded)

\* ------------------------------------------- properties of the tree searches
\* The agent that moves after agent i, and the plies left once it is its turn.
NextAgent(i) == IF i + 1 = game.n THEN 0 ELSE i + 1
PliesAfter(i, plies) == IF i + 1 = game.n THEN plies - 1 ELSE plies

\* The arithmetic mean of a sequence of fractions.
ArithmeticMean(xs) ==
    LET RECURSIVE Total(_)
        Total(k) == IF k = 0 THEN <<0, 1>>
                    ELSE LET t == Total(k - 1)
                         IN <<t[1] * xs[k][2] + xs[k][1] * t[2], t[2] * xs[k][2]>>
        t == Total(Len(xs))
    IN Rat(t[1], t[2] * Len(xs))

RECURSIVE TreeValue(_, _, _, _)
\* The depth-limited value of a state at which agent i is to move with the
\* given number of full passes through the agents left: the evaluation of
\* the state when no pass is left or agent i has no legal action; else the
\* greatest value of the children for agent 0 and, for any other agent, their
\* least value (adversary "min") or their mean (adversary "mean").
TreeValue(adversary, s, i, plies) ==
    IF plies = 0 THEN RatOf(game.eval[s])
    ELSE LET legal == getLegalActions(s, i)
         IN IF legal = <<>> THEN RatOf(game.eval[s])
            ELSE LET children ==
                         [k \in 1 .. Len(legal) |->
                             TreeValue(adversary, legal[k], NextAgent(i), PliesAfter(i, plies))]
                 IN IF i = 0 THEN RatMax(children)
                    ELSE IF adversary = "min" THEN RatMin(children)
                    ELSE ArithmeticMean(children)

\* The value of a root action of agent 0.
RootValue(adversary, a) ==
    TreeValue(adversary, a, NextAgent(0), PliesAfter(0, game.depth))

RootActions == {a \in GameStates : <<0, rootState, a>> \in game.moves}

\* a is a root action of the greatest value.
IsBestRootAction(adversary, a) ==
    /\ a \in RootActions
    /\ \A b \in RootActions : ~RatLess(RootValue(adversary, a), RootValue(adversary, b))

\* The first root action, in enumeration order, of the greatest value.
FirstBestRootAction(adversary) ==
    CHOOSE a \in RootActions :
        /\ IsBestRootAction(adversary, a)
        /\ \A b \in RootActions : IsBestRootAction(adversary, b) => a <= b

\* C6: with at least two agents and a root that has a legal action,
\* MinimaxAgent.getAction returns a root action whose depth-limited minimax
\* value is the greatest of all root actions.
C6_MinimaxReturnsBestAction ==
    (agent = "MinimaxAgent" /\ decision # "running" /\ game.n >= 2 /\ RootActions # {})
        => (decision = "returned" /\ IsBestRootAction("min", chosen))

\* C7: for a root that has a legal action, AlphaBetaAgent returns the action
\* full minimax chooses.
C7_AlphaBetaEqualsMinimax ==
    (agent = "AlphaBetaAgent" /\ decision # "running" /\ RootActions # {})
        => (decision = "returned" /\ chosen = FirstBestRootAction("min"))

\* C8: every score ExpectimaxAgent.getAction records for a root action is the
\* reference expectimax value of that action, and in the last ply every call
\* expectiMax(s, i, depth - 1) returns the reference value of s with agent i
\* to move (agent 0 with no ply left when i is the number of agents).
C8_ExpectimaxEqualsReference ==
    agent = "ExpectimaxAgent" =>
        /\ \A k \in 1 .. Len(scores) : scores[k][1] = RootValue("mean", scores[k][2])
        /\ scores = <<>> =>
              \A s \in GameStates, i \in 1 .. game.n :
                  expectiMax(s, i, game.depth - 1) =
                      TreeValue("mean", s, i % game.n, IF i = game.n THEN 0 ELSE 1)

\* ExpectimaxAgent has returned from a two-ply search in which one root action
\* is worth a mean that is not a whole number and another is worth more.
C8_Witness ==
    /\ agent = "ExpectimaxAgent" /\ decision = "returned" /\ game.depth = 2
    /\ \E k \in 1 .. Len(scores) : scores[k][1][2] > 1 /\ RatLess(scores[k][1], BestScore(scores))

RECURSIVE Turns(_, _, _)
\* The <<state, agent>> turns the depth-limited tree below a state holds.
Turns(s, i, plies) ==
    IF plies = 0 THEN {}
    ELSE {<<s, i>>} \cup
         UNION {Turns(t, NextAgent(i), PliesAfter(i, plies))
                : t \in {a \in GameStates : <<i, s, a>> \in game.moves}}

\* Every agent but agent 0 has exactly one legal action wherever it moves.
SingleAdversaryAction ==
    \A t \in Turns(rootState, 0, game.depth) :
        t[2] # 0 => Cardinality({a \in GameStates : <<t[2], t[1], a>> \in game.moves}) = 1

\* C9: when every agent but agent 0 has exactly one legal action wherever it
\* moves, ExpectimaxAgent and MinimaxAgent give every root action the same
\* value and return the same action.
C9_ExpectimaxEqualsMinimax ==
    (agent = "ExpectimaxAgent" /\ decision = "returned" /\ SingleAdversaryAction)
        => /\ \A k \in 1 .. Len(scores) : scores[k] = MinimaxScore(scores[k][2])
           /\ chosen = MinimaxGetAction

\* C16: the action MinimaxAgent.getAction or ExpectimaxAgent.getAction returns
\* is that of a score, among those recorded for the root actions in the
\* order of getLegalActions(0), whose value is the greatest of all, and every
\* score before it has a smaller value.
C16_RootTieBreakFirst ==
    (agent \in {"MinimaxAgent", "ExpectimaxAgent"} /\ decision = "returned") =>
        /\ [k \in 1 .. Len(scores) |-> scores[k][2]] = getLegalActions(rootState, 0)
        /\ \E k \in 1 .. Len(scores) :
              /\ chosen = scores[k][2]
              /\ \A j \in 1 .. Len(scores) : ~RatLess(scores[k][1], scores[j][1])
              /\ \A j \in 1 .. k - 1 : RatLess(scores[j][1], scores[k][1])

\* An agent has returned the second of three root actions: the first has a
\* smaller value and the third the same value.
C16_Witness ==
    /\ decision = "returned" /\ Len(scores) = 3
    /\ chosen = scores[2][2]
    /\ RatLess(scores[1][1], scores[2][1])
    /\ scores[3][1] = scores[2][1]

\* C17: for every tree depth from 0, a call of MinimaxAgent.getAction or
\* ExpectimaxAgent.getAction ends, and its miniMax / expectiMax calls are
\* never nested deeper than depth * number of agents.
C17_RecursionIsBounded ==
    agent \in {"MinimaxAgent", "ExpectimaxAgent"} =>
        /\ decision # "overflow"
        /\ nesting <= game.depth * game.n

\* ------------------------------------------- properties of value iteration
\* The Q-value of an action under a table: the sum over its transitions of
\* probability * (reward + discount * table[nextState]).
BackupQ(table, s, a) ==
    LET outs == mdp.trans[s][a]
        g == mdp.discountRate
        \* probability * (reward + discount * table[nextState]) as a fraction
        term(o) == LET v == table[o.nextState]
                   IN <<o.prob[1] * (o.reward * g[2] * v[2] + g[1] * v[1]),
                        o.prob[2] * g[2] * v[2]>>
        plus(x, y) == <<x[1] * y[2] + y[1] * x[2], x[2] * y[2]>>
        total == IF Len(outs) = 1 THEN term(outs[1])
                 ELSE plus(term(outs[1]), term(outs[2]))
    IN Rat(total[1], total[2])

RECURSIVE BellmanTable(_)
\* The table after k synchronous sweeps from the all-zero table: a state with
\* no action keeps its value, any other gets its greatest Q-value under the
\* table of sweep k - 1.
BellmanTable(k) ==
    IF k = 0 THEN [s \in MdpStates |-> <<0, 1>>]
    ELSE LET prev == BellmanTable(k - 1)
         IN [s \in MdpStates |->
                IF Len(mdp.trans[s]) = 0 THEN prev[s]
                ELSE LET qs == {BackupQ(prev, s, a) : a \in 1 .. Len(mdp.trans[s])}
                     IN CHOOSE q \in qs : \A r \in qs : ~RatLess(q, r)]

\* C10: the table is that of `sweeps` synchronous sweeps from the all-zero
\* table, also while the next sweep is in progress; every value the sweep in
\* progress has computed is that of the next synchronous sweep; and the
\* construction is done after exactly iters sweeps.
C10_SweepsAreSynchronous ==
    construction \in {"running", "done"} =>
        /\ sweeps <= mdp.iters
        /\ construction = "done" => (sweeps = mdp.iters /\ newValues = <<>>)
        /\ values = BellmanTable(sweeps)
        /\ newValues # <<>> =>
              LET next == BellmanTable(sweeps + 1)
              IN \A s \in 1 .. Len(newValues) : newValues[s] = next[s]

\* In the second sweep the new value of state 1 differs from its value in the
\* table, and state 2, which has an action that can lead to state 1, has been
\* given its new value.
C10_Witness ==
    /\ construction = "running" /\ sweeps = 1 /\ Len(newValues) = 2
    /\ newValues[1] # values[1]
    /\ newValues[2] # values[2]
    /\ \E a \in 1 .. Len(mdp.trans[2]) : \E k \in 1 .. Len(mdp.trans[2][a]) :
           mdp.trans[2][a][k].nextState = 1

\* C11: an agent constructed with iters = 0 has the value 0 for every state,
\* and getPolicy returns None for whatever state it is asked about, a state
\* with possible actions included.
C11_ZeroSweepsNoPolicy ==
    (construction = "done" /\ mdp.iters = 0)
        => /\ \A s \in MdpStates : getValue(s) = <<0, 1>>
           /\ asked # 0 => answer = None

\* a is an action of s whose Q-value under the table is the greatest of the
\* actions of s, and every action before it has a smaller one.
IsFirstBestAction(table, s, a) ==
    /\ a \in 1 .. Len(mdp.trans[s])
    /\ \A b \in 1 .. Len(mdp.trans[s]) : ~RatLess(BackupQ(table, s, a), BackupQ(table, s, b))
    /\ \A b \in 1 .. a - 1 : RatLess(BackupQ(table, s, b), BackupQ(table, s, a))

\* C12: getPolicy returns None exactly when the state has no possible action;
\* otherwise it returns the action of the greatest Q-value under the current
\* table, the first of them in enumeration order when several share it.
C12_PolicyIsFirstBestAction ==
    asked # 0 =>
        /\ answer = None <=> Len(mdp.trans[asked]) = 0
        /\ Len(mdp.trans[asked]) > 0 => IsFirstBestAction(values, asked, answer)

\* getPolicy has answered for a state whose two actions differ in where they
\* lead and share the greatest Q-value, under a table that is not all zero.
C12_Witness ==
    /\ asked # 0 /\ answer = 1 /\ Len(mdp.trans[asked]) = 2
    /\ mdp.trans[asked][1] # mdp.trans[asked][2]
    /\ BackupQ(values, asked, 1) = BackupQ(values, asked, 2)
    /\ \E s \in MdpStates : values[s] # <<0, 1>>

\* Every reward of the MDP is nonnegative and its discount lies in (0, 1).
NonnegativeRewards ==
    \A s \in MdpStates : \A a \in 1 .. Len(mdp.trans[s]) :
        \A k \in 1 .. Len(mdp.trans[s][a]) : mdp.trans[s][a][k].reward >= 0

DiscountInUnitInterval ==
    0 < mdp.discountRate[1] /\ mdp.discountRate[1] < mdp.discountRate[2]

\* C15: of two agents constructed with the same mdp and discountRate, the one
\* with as many sweeps has the same table, and, when the rewards are
\* nonnegative and the discount lies in (0, 1), the one with one sweep more
\* has for every state a value at least as great.
C15_MonotoneAndDeterministic ==
    (construction = "done" /\ previous # <<>>) =>
        /\ mdp.iters = previous[1].iters => values = previous[1].values
        /\ (mdp.iters = previous[1].iters + 1 /\ NonnegativeRewards /\ DiscountInUnitInterval)
              => \A s \in MdpStates : ~RatLess(values[s], previous[1].values[s])

\* A second agent has made two sweeps where the first made one, and a state
\* whose value was above 0 after one sweep has a greater value after two.
C15_Witness ==
    /\ construction = "done" /\ previous # <<>>
    /\ previous[1].iters = 1 /\ mdp.iters = 2
    /\ \E s \in MdpStates :
           /\ RatLess(<<0, 1>>, previous[1].values[s])
           /\ RatLess(previous[1].values[s], values[s])

====
